---- MODULE Spec2Model ----
(***************************************************************************)
(* Model of wod (src/src/lib.rs): hash-gated copy of files, byte buffers   *)
(* and directory trees.                                                    *)
(*                                                                         *)
(* The filesystem is two trees, the source side and the destination side.  *)
(* A path is a sequence of entry names; a tree maps every path to a node   *)
(* (absent, directory or regular file).  The library never writes to the   *)
(* source side.  Every write to a destination file stamps it with a fresh  *)
(* modification time taken from a logical clock.                           *)
(*                                                                         *)
(* write_on_file_diff and write_on_bytes_diff are straight-line code and   *)
(* are one action each.  write_on_dir_diff is recursive: it is modelled    *)
(* with an explicit stack of activation frames, one step per filesystem    *)
(* operation, and a "?" that returns an error pops one frame at a time.    *)
(*                                                                         *)
(* Failures are the ones the state of the filesystem decides (a missing    *)
(* path, a directory where a file is expected, a permission); a device     *)
(* error in the middle of a transfer is not modelled.                      *)
(***************************************************************************)
EXTENDS Naturals, Sequences, FiniteSets

\* ------------------------------------------------------------------ bounds
\* Longest file content, in bytes.
MaxLen == 1
\* Deepest path below a tree's root.
MaxDepth == 2
\* Most entries below the root of a source tree of a directory fixture.
MaxSrcEntries == 2
\* Most entries below the root of a destination tree of a directory fixture.
MaxDstEntries == 1
\* Top-level calls in one behaviour.
MaxCalls == 2
\* Width of a digest, in bits (u64 in the code, scaled down).
HashBits == 2

Bytes == {0, 1}
Names == {"a", "b"}

\* The sequences over S of length n, and of length at most n.
RECURSIVE SeqsOfLen(_, _)
SeqsOfLen(S, n) ==
    IF n = 0 THEN {<< >>} ELSE {Append(q, x) : q \in SeqsOfLen(S, n - 1), x \in S}

SeqsUpTo(S, n) == UNION {SeqsOfLen(S, k) : k \in 0..n}

Contents == SeqsUpTo(Bytes, MaxLen)
Paths == SeqsUpTo(Names, MaxDepth)
Root == << >>

Parent(p) == SubSeq(p, 1, Len(p) - 1)
IsPrefix(p, q) == Len(p) <= Len(q) /\ SubSeq(q, 1, Len(p)) = p

\* ------------------------------------------------------------------- nodes
NoNode == [kind |-> "none", data |-> << >>, r |-> FALSE, w |-> FALSE, mtime |-> 0]
DirNode(r) == [kind |-> "dir", data |-> << >>, r |-> r, w |-> TRUE, mtime |-> 0]
FileNode(c, r, w, t) == [kind |-> "file", data |-> c, r |-> r, w |-> w, mtime |-> t]

\* ----------------------------------------------------------------- results
Ok == [status |-> "ok", kind |-> "ok"]
Err(k) == [status |-> "err", kind |-> k]
None == [status |-> "none", kind |-> "none"]
Running == [status |-> "running", kind |-> "none"]


\* ------------------------------------------------------------------ hasher
\* The hasher H is a type parameter of every entry point; the model
\* instantiates it with a rotate-xor-multiply accumulator of HashBits bits,
\* the scheme of the FxHasher the tests instantiate.  H::default() is the
\* state 0 and finish() returns the state.
Modulus == 2 ^ HashBits

RECURSIVE Xor(_, _)
Xor(x, y) ==
    IF x = 0 THEN y
    ELSE IF y = 0 THEN x
    ELSE ((x + y) % 2) + 2 * Xor(x \div 2, y \div 2)

RotateLeft(h) == ((2 * h) % Modulus) + (h \div (Modulus \div 2))

\* HashWriter::write for one byte of the stream: self.0.write(buf).
HashWrite(h, byte) == (Xor(RotateLeft(h), byte) * 5) % Modulus

\* io::copy(reader, &mut HashWriter(hasher)) followed by finish().
RECURSIVE Absorb(_, _)
Absorb(h, bytes) ==
    IF bytes = << >> THEN h ELSE Absorb(HashWrite(h, Head(bytes)), Tail(bytes))

Hash(bytes) == Absorb(0, bytes)

\* -------------------------------------------------------------- filesystem
\* The error of resolving a path that names nothing: a regular file among
\* its ancestors gives ENOTDIR, otherwise ENOENT.
MissingKind(t, p) ==
    IF \E i \in 0..(Len(p) - 1) : t[SubSeq(p, 1, i)].kind = "file"
    THEN "NotADirectory" ELSE "NotFound"

Exists(t, p) == t[p].kind # "none"

IsDir(t, p) == t[p].kind = "dir"

\* File::open(p) and a read of the whole stream.
ReadFile(t, p) ==
    CASE t[p].kind = "none" -> [ok |-> FALSE, kind |-> MissingKind(t, p), data |-> << >>]
      [] t[p].kind = "dir" -> [ok |-> FALSE, kind |-> "IsADirectory", data |-> << >>]
      [] t[p].kind = "file" /\ ~t[p].r ->
            [ok |-> FALSE, kind |-> "PermissionDenied", data |-> << >>]
      [] OTHER -> [ok |-> TRUE, kind |-> "ok", data |-> t[p].data]

\* The digest of the file at p, or the error of opening or reading it.
HashFile(t, p) ==
    LET rd == ReadFile(t, p)
    IN  [ok |-> rd.ok, kind |-> rd.kind, digest |-> IF rd.ok THEN Hash(rd.data) ELSE 0]

\* Opening p for writing with create and truncate: "ok" or the error.
\* The parent of the root lies outside the tree and is an existing directory.
OpenWrite(t, p) ==
    CASE t[p].kind = "dir" -> "IsADirectory"
      [] t[p].kind = "file" -> IF t[p].w THEN "ok" ELSE "PermissionDenied"
      [] p = Root -> "ok"
      [] t[Parent(p)].kind = "dir" -> "ok"
      [] OTHER -> MissingKind(t, p)

\* fs::copy that leaves the permission bits of an existing destination alone.
FsCopyKeepMode(s, d, from, to, clk) ==
    LET srcErr == CASE s[from].kind = "none" -> MissingKind(s, from)
                    [] s[from].kind = "dir" -> "InvalidInput"
                    [] ~s[from].r -> "PermissionDenied"
                    [] OTHER -> "ok"
        dstErr == OpenWrite(d, to)
        old == d[to]
    IN  IF srcErr # "ok" THEN [res |-> Err(srcErr), dst |-> d, clock |-> clk]
        ELSE IF dstErr # "ok" THEN [res |-> Err(dstErr), dst |-> d, clock |-> clk]
        ELSE [res |-> Ok,
              dst |-> [d EXCEPT ![to] =
                         IF old.kind = "file" THEN FileNode(s[from].data, old.r, old.w, clk + 1)
                         ELSE FileNode(s[from].data, s[from].r, s[from].w, clk + 1)],
              clock |-> clk + 1]

\* fs::copy(from, to): the content and the permission bits of the source
\* replace those of the destination.
FsCopy(s, d, from, to, clk) ==
    LET srcErr == CASE s[from].kind = "none" -> MissingKind(s, from)
                    [] s[from].kind = "dir" -> "InvalidInput"
                    [] ~s[from].r -> "PermissionDenied"
                    [] OTHER -> "ok"
        dstErr == OpenWrite(d, to)
    IN  IF srcErr # "ok" THEN [res |-> Err(srcErr), dst |-> d, clock |-> clk]
        ELSE IF dstErr # "ok" THEN [res |-> Err(dstErr), dst |-> d, clock |-> clk]
        ELSE [res |-> Ok,
              dst |-> [d EXCEPT ![to] = FileNode(s[from].data, s[from].r, s[from].w, clk + 1)],
              clock |-> clk + 1]

\* io::copy(&mut Cursor::new(from), &mut File::create(to)?): an existing
\* file keeps its permission bits, a new one is readable and writable.
WriteBytes(d, bytes, to, clk) ==
    LET dstErr == OpenWrite(d, to)
        old == d[to]
    IN  IF dstErr # "ok" THEN [res |-> Err(dstErr), dst |-> d, clock |-> clk]
        ELSE [res |-> Ok,
              dst |-> [d EXCEPT ![to] =
                         IF old.kind = "file" THEN FileNode(bytes, old.r, old.w, clk + 1)
                         ELSE FileNode(bytes, TRUE, TRUE, clk + 1)],
              clock |-> clk + 1]

\* fs::create_dir_all(to), called when to does not exist: every missing
\* directory on the way to `to` is created; a regular file on the way fails
\* the call before anything is created.
CreateDirAll(d, to) ==
    IF MissingKind(d, to) = "NotADirectory"
    THEN [res |-> Err("NotADirectory"), dst |-> d]
    ELSE [res |-> Ok,
          dst |-> [p \in Paths |->
                     IF IsPrefix(p, to) /\ d[p].kind = "none" THEN DirNode(TRUE) ELSE d[p]]]

\* fs::read_dir(from): the names of the entries, or the error.
ReadDir(s, from) ==
    CASE s[from].kind = "none" -> [ok |-> FALSE, kind |-> MissingKind(s, from), names |-> {}]
      [] s[from].kind = "file" -> [ok |-> FALSE, kind |-> "NotADirectory", names |-> {}]
      [] ~s[from].r -> [ok |-> FALSE, kind |-> "PermissionDenied", names |-> {}]
      [] OTHER -> [ok |-> TRUE, kind |-> "ok",
                   names |-> {n \in Names : Len(from) < MaxDepth
                                            /\ s[Append(from, n)].kind # "none"}]

\* ------------------------------------------------------ the file operations
\* The comparison left out: every call copies.
AlwaysDiffer(fromHash, toHash) == TRUE

\* The comparison reduced to the existence test: a readable destination is
\* never copied over.
DifferOnlyWhenUnread(fromHash, toHash) == ~toHash.ok

\* `to_hash.ok() != Some(from_hash)`: the destination gave no digest, or
\* another one than the source.
DigestsDiffer(fromHash, toHash) == ~toHash.ok \/ toHash.digest # fromHash

\* write_on_file_diff with a "?" on the destination's digest.
WriteOnFileDiffProbeFatal(s, d, from, to, clk) ==
    LET fromHash == HashFile(s, from)
        toHash == HashFile(d, to)
    IN  IF ~fromHash.ok THEN [res |-> Err(fromHash.kind), dst |-> d, clock |-> clk]
        ELSE IF ~toHash.ok THEN [res |-> Err(toHash.kind), dst |-> d, clock |-> clk]
        ELSE IF toHash.digest # fromHash.digest THEN FsCopy(s, d, from, to, clk)
        ELSE [res |-> Ok, dst |-> d, clock |-> clk]

\* write_on_file_diff that creates or truncates the destination before it
\* opens the source.
WriteOnFileDiffCreateFirst(s, d, from, to, clk) ==
    LET fromHash == HashFile(s, from)
        toHash == HashFile(d, to)
    IN  IF ~fromHash.ok
        THEN [res |-> Err(fromHash.kind), dst |-> WriteBytes(d, << >>, to, clk).dst,
              clock |-> WriteBytes(d, << >>, to, clk).clock]
        ELSE IF DigestsDiffer(fromHash.digest, toHash) THEN FsCopy(s, d, from, to, clk)
        ELSE [res |-> Ok, dst |-> d, clock |-> clk]

\* write_on_file_diff(from, to).
WriteOnFileDiff(s, d, from, to, clk) ==
    LET fromHash == HashFile(s, from)
        toHash == HashFile(d, to)
    IN  IF ~fromHash.ok THEN [res |-> Err(fromHash.kind), dst |-> d, clock |-> clk]
        ELSE IF DigestsDiffer(fromHash.digest, toHash) THEN FsCopy(s, d, from, to, clk)
        ELSE [res |-> Ok, dst |-> d, clock |-> clk]

\* write_on_bytes_diff with a "?" on the destination's digest.
WriteOnBytesDiffProbeFatal(d, bytes, to, clk) ==
    LET fromHash == Hash(bytes)
        toHash == HashFile(d, to)
    IN  IF ~toHash.ok THEN [res |-> Err(toHash.kind), dst |-> d, clock |-> clk]
        ELSE IF toHash.digest # fromHash THEN WriteBytes(d, bytes, to, clk)
        ELSE [res |-> Ok, dst |-> d, clock |-> clk]

\* write_on_bytes_diff(from, to).
WriteOnBytesDiff(d, bytes, to, clk) ==
    LET fromHash == Hash(bytes)
        toHash == HashFile(d, to)
    IN  IF DigestsDiffer(fromHash, toHash) THEN WriteBytes(d, bytes, to, clk)
        ELSE [res |-> Ok, dst |-> d, clock |-> clk]

\* ------------------------------------------------------------------- state
VARIABLES
    src,        \* the source side of the filesystem: path -> node
    dst,        \* the destination side of the filesystem: path -> node
    clock,      \* the modification time of the latest write
    stack,      \* activation frames of write_on_dir_diff, innermost last
    ret,        \* the value a returning frame hands to its caller, or None
    call,       \* the top-level call in progress or last made
    result,     \* what that call returned, Running while it runs
    pre,        \* dst when that call began
    calls,      \* the number of top-level calls made
    prevResult  \* what the call before it returned

vars == <<src, dst, clock, stack, ret, call, result, pre, calls, prevResult>>

NoCall == [op |-> "none", from |-> Root, to |-> Root, bytes |-> << >>]

\* A frame of write_on_dir_diff(from, to).  pc is the statement it is at:
\* "create" (to.exists / create_dir_all), "read_dir", "loop" (the for loop,
\* todo holding the entries not yet visited) and "call" (inside the
\* recursive call made for an entry).
Frame(from, to, pc, todo) == [from |-> from, to |-> to, pc |-> pc, todo |-> todo]

Top == stack[Len(stack)]

SetTop(f) == [stack EXCEPT ![Len(stack)] = f]

\* ---------------------------------------------------------------- fixtures
EmptyTree == [p \in Paths |-> NoNode]

WithRoot(nd) == [EmptyTree EXCEPT ![Root] = nd]

\* Every tree made from a tree of T by adding one entry under a directory.
Grow(T, opts) ==
    UNION {{[t EXCEPT ![p] = nd] :
                p \in {q \in Paths \ {Root} : t[q].kind = "none" /\ t[Parent(q)].kind = "dir"},
                nd \in opts} : t \in T}

RECURSIVE TreesUpTo(_, _, _)
TreesUpTo(T, opts, n) == IF n = 0 THEN T ELSE T \cup TreesUpTo(Grow(T, opts), opts, n - 1)

\* The contents of the files of a directory fixture: the empty file, a file
\* of the same digest as the empty file, and a file of another digest.
TreeContents == {<< >>, <<0>>, <<1>>}

PlainFiles == {FileNode(c, TRUE, TRUE, 0) : c \in TreeContents}

\* Directory fixtures: trees of readable, writable files and of directories
\* (a source directory may be unreadable), a missing root, a root that is a
\* regular file.
SrcTrees ==
    TreesUpTo({WithRoot(DirNode(TRUE))}, {DirNode(TRUE), DirNode(FALSE)} \cup PlainFiles,
              MaxSrcEntries)
        \cup {WithRoot(nd) : nd \in {NoNode, DirNode(FALSE)} \cup PlainFiles}

DstTrees ==
    TreesUpTo({WithRoot(DirNode(TRUE))}, {DirNode(TRUE)} \cup PlainFiles, MaxDstEntries)
        \cup {WithRoot(nd) : nd \in {NoNode} \cup PlainFiles}

\* File fixtures: one path on each side, in every state a file operation
\* distinguishes, under a root directory that exists or not.
SrcFileTrees ==
    LET nodes == {NoNode, DirNode(TRUE)}
                   \cup {FileNode(c, r, w, 0) : c \in Contents, r \in BOOLEAN, w \in BOOLEAN}
    IN  {WithRoot(nd) : nd \in nodes}
          \cup {[WithRoot(DirNode(TRUE)) EXCEPT ![<<"a">>] = nd] : nd \in nodes}

DstFileTrees ==
    LET nodes == {NoNode, DirNode(TRUE)}
                   \cup {FileNode(c, r, w, 0) : c \in Contents, r \in BOOLEAN, w \in BOOLEAN}
    IN  {WithRoot(nd) : nd \in nodes}
          \cup {[WithRoot(DirNode(TRUE)) EXCEPT ![<<"a">>] = nd] : nd \in nodes}

InitRest ==
    /\ clock = 0
    /\ stack = << >>
    /\ ret = None
    /\ call = NoCall
    /\ result = None
    /\ pre = dst
    /\ calls = 0
    /\ prevResult = None

InitFile == src \in SrcFileTrees /\ dst \in DstFileTrees /\ InitRest

InitDir == src \in SrcTrees /\ dst \in DstTrees /\ InitRest

Init == InitFile \/ InitDir

\* ----------------------------------------------------------------- actions
\* The paths a top-level call is made on: the source path and the
\* destination path mirror each other, so that a directory call on a path
\* below a missing root has ancestors to create.
CallPaths == {p \in Paths : Len(p) <= 1}

\* A behaviour is one call followed by repetitions of the same call.
CanCall(c) == stack = << >> /\ calls < MaxCalls /\ (calls = 0 \/ c = call)

Begin(c) ==
    /\ CanCall(c)
    /\ call' = c
    /\ calls' = calls + 1
    /\ pre' = dst
    /\ prevResult' = result

\* A top-level write_on_file_diff(p, p).
CallFile(p) ==
    LET out == WriteOnFileDiff(src, dst, p, p, clock)
    IN  /\ Begin([op |-> "file", from |-> p, to |-> p, bytes |-> << >>])
        /\ dst' = out.dst
        /\ clock' = out.clock
        /\ result' = out.res
        /\ UNCHANGED <<src, stack, ret>>

\* A top-level write_on_bytes_diff(b, p).
CallBytes(b, p) ==
    LET out == WriteOnBytesDiff(dst, b, p, clock)
    IN  /\ Begin([op |-> "bytes", from |-> Root, to |-> p, bytes |-> b])
        /\ dst' = out.dst
        /\ clock' = out.clock
        /\ result' = out.res
        /\ UNCHANGED <<src, stack, ret>>

\* A top-level write_on_dir_diff(p, p) is entered.
CallDir(p) ==
    /\ Begin([op |-> "dir", from |-> p, to |-> p, bytes |-> << >>])
    /\ stack' = <<Frame(p, p, "create", {})>>
    /\ result' = Running
    /\ UNCHANGED <<src, dst, clock, ret>>

\* The innermost frame returns v: to its caller, or to the top-level caller.
Return(v) ==
    /\ stack' = SubSeq(stack, 1, Len(stack) - 1)
    /\ IF Len(stack) = 1
       THEN result' = v /\ ret' = None
       ELSE result' = result /\ ret' = v

\* The destination directory emptied when it exists (a mirror, not a merge).
DirCreateFresh ==
    /\ stack # << >> /\ Top.pc = "create"
    /\ IF Exists(dst, Top.to)
       THEN /\ dst' = [p \in Paths |->
                         IF IsPrefix(Top.to, p) /\ p # Top.to /\ IsDir(dst, Top.to)
                         THEN NoNode ELSE dst[p]]
            /\ stack' = SetTop([Top EXCEPT !.pc = "read_dir"])
            /\ UNCHANGED <<ret, result>>
       ELSE LET out == CreateDirAll(dst, Top.to)
            IN  IF out.res = Ok
                THEN /\ dst' = out.dst
                     /\ stack' = SetTop([Top EXCEPT !.pc = "read_dir"])
                     /\ UNCHANGED <<ret, result>>
                ELSE /\ Return(out.res)
                     /\ UNCHANGED dst
    /\ UNCHANGED <<src, clock, call, pre, calls, prevResult>>

\* The source enumerated before the destination directory is created.
DirCreateAfterRead ==
    /\ stack # << >> /\ Top.pc = "create"
    /\ IF ~ReadDir(src, Top.from).ok
       THEN /\ Return(Err(ReadDir(src, Top.from).kind))
            /\ UNCHANGED dst
       ELSE IF Exists(dst, Top.to)
       THEN /\ stack' = SetTop([Top EXCEPT !.pc = "read_dir"])
            /\ UNCHANGED <<dst, ret, result>>
       ELSE LET out == CreateDirAll(dst, Top.to)
            IN  IF out.res = Ok
                THEN /\ dst' = out.dst
                     /\ stack' = SetTop([Top EXCEPT !.pc = "read_dir"])
                     /\ UNCHANGED <<ret, result>>
                ELSE /\ Return(out.res)
                     /\ UNCHANGED dst
    /\ UNCHANGED <<src, clock, call, pre, calls, prevResult>>

\* if !to.exists() { fs::create_dir_all(to)?; }
DirCreate ==
    /\ stack # << >> /\ Top.pc = "create"
    /\ IF Exists(dst, Top.to)
       THEN /\ stack' = SetTop([Top EXCEPT !.pc = "read_dir"])
            /\ UNCHANGED <<dst, ret, result>>
       ELSE LET out == CreateDirAll(dst, Top.to)
            IN  IF out.res = Ok
                THEN /\ dst' = out.dst
                     /\ stack' = SetTop([Top EXCEPT !.pc = "read_dir"])
                     /\ UNCHANGED <<ret, result>>
                ELSE /\ Return(out.res)
                     /\ UNCHANGED dst
    /\ UNCHANGED <<src, clock, call, pre, calls, prevResult>>

\* for entry in fs::read_dir(from)?
DirRead ==
    /\ stack # << >> /\ Top.pc = "read_dir"
    /\ LET rd == ReadDir(src, Top.from)
       IN  IF rd.ok
           THEN /\ stack' = SetTop([Top EXCEPT !.pc = "loop", !.todo = rd.names])
                /\ UNCHANGED <<ret, result>>
           ELSE Return(Err(rd.kind))
    /\ UNCHANGED <<src, dst, clock, call, pre, calls, prevResult>>

\* The file branch that never touches a destination entry that exists.
EntryFileSkipExisting(s, d, fromPath, toPath, clk) ==
    IF Exists(d, toPath)
    THEN [res |-> Ok, dst |-> d, clock |-> clk]
    ELSE FsCopy(s, d, fromPath, toPath, clk)

\* The file branch of the loop body for the entry at from_path, to_path.
EntryFile(s, d, fromPath, toPath, clk) ==
    IF Exists(d, toPath)
    THEN WriteOnFileDiff(s, d, fromPath, toPath, clk)
    ELSE FsCopy(s, d, fromPath, toPath, clk)

\* One iteration of the loop, for an entry the filesystem reports next (in
\* no particular order): a subdirectory is entered, a file is handled.
DirEntry(n) ==
    /\ stack # << >> /\ Top.pc = "loop" /\ n \in Top.todo
    /\ LET fromPath == Append(Top.from, n)
           toPath == Append(Top.to, n)
           rest == [Top EXCEPT !.todo = Top.todo \ {n}]
       IN  IF IsDir(src, fromPath)
           THEN /\ stack' = Append(SetTop([rest EXCEPT !.pc = "call"]),
                                   Frame(fromPath, toPath, "create", {}))
                /\ UNCHANGED <<dst, clock, ret, result>>
           ELSE LET out == EntryFile(src, dst, fromPath, toPath, clock)
                IN  IF out.res = Ok
                    THEN /\ dst' = out.dst
                         /\ clock' = out.clock
                         /\ stack' = SetTop(rest)
                         /\ UNCHANGED <<ret, result>>
                    ELSE /\ Return(out.res)
                         /\ UNCHANGED <<dst, clock>>
    /\ UNCHANGED <<src, call, pre, calls, prevResult>>

\* The loop has visited every entry: Ok(()).
DirDone ==
    /\ stack # << >> /\ Top.pc = "loop" /\ Top.todo = {}
    /\ Return(Ok)
    /\ UNCHANGED <<src, dst, clock, call, pre, calls, prevResult>>

\* The recursive call without its "?": the loop goes on after an error.
DirResumeIgnoreErr ==
    /\ stack # << >> /\ Top.pc = "call" /\ ret # None
    /\ stack' = SetTop([Top EXCEPT !.pc = "loop"])
    /\ ret' = None
    /\ UNCHANGED <<src, dst, clock, call, pre, calls, prevResult, result>>

\* write_on_dir_diff::<H>(&from_path, &to_path)?  has returned: the loop
\* goes on after Ok, the error is returned after Err.
DirResume ==
    /\ stack # << >> /\ Top.pc = "call" /\ ret # None
    /\ IF ret = Ok
       THEN /\ stack' = SetTop([Top EXCEPT !.pc = "loop"])
            /\ ret' = None
            /\ UNCHANGED result
       ELSE Return(ret)
    /\ UNCHANGED <<src, dst, clock, call, pre, calls, prevResult>>

\* write_on_file_diff and write_on_dir_diff, on every fixture.
Next ==
    \/ \E p \in CallPaths : CallFile(p)
    \/ \E p \in CallPaths : CallDir(p)
    \/ DirCreate
    \/ DirRead
    \/ \E n \in Names : DirEntry(n)
    \/ DirDone
    \/ DirResume

Spec == Init /\ [][Next]_vars

\* write_on_file_diff and write_on_bytes_diff, on the file fixtures.
NextFile ==
    \/ \E p \in CallPaths : CallFile(p)
    \/ \E p \in CallPaths, b \in Contents : CallBytes(b, p)

SpecFile == InitFile /\ [][NextFile]_vars

\* ------------------------------------------------------------------ claims
\* The top-level call has returned.
Done == stack = << >> /\ result.status \in {"ok", "err"}

FileCallDone == call.op = "file" /\ Done

BytesCallDone == call.op = "bytes" /\ Done

DirCallDone == call.op = "dir" /\ Done

\* p names a regular file the process can read.
Readable(t, p) == t[p].kind = "file" /\ t[p].r

\* The file at p is readable on both sides and holds the same bytes.
SameContent(s, d, p) == Readable(s, p) /\ Readable(d, p) /\ d[p].data = s[p].data

\* p lies strictly below the directory root.
Below(root, p) == IsPrefix(root, p) /\ p # root

\* C1: a destination file that is readable and byte-equal to its source
\* file before a call of write_on_file_diff (made directly, or by
\* write_on_dir_diff for an entry that exists) is not written: it is the
\* same node, modification time included, in every state of the call and
\* after it; and the direct call, its source readable, returns Ok.
C1_MetadataPreserved ==
    call.op \in {"file", "dir"} =>
        \A p \in Paths :
            (src[p].kind = "file" /\ Readable(pre, p) /\ pre[p].data = src[p].data) =>
                /\ dst[p] = pre[p]
                /\ (call.op = "file" /\ call.to = p /\ src[p].r) => result = Ok

C1_Witness ==
    /\ DirCallDone /\ result = Ok
    /\ \E p, q \in Paths :
          /\ Below(call.to, p) /\ SameContent(src, pre, p)
          /\ dst[q].mtime > pre[q].mtime

\* C2 as stated: a destination file whose content differs from the source's
\* holds the source's content after write_on_file_diff returns Ok.
C2_Original ==
    (/\ FileCallDone /\ result = Ok
     /\ pre[call.to].kind = "file"
     /\ pre[call.to].data # src[call.from].data)
        => dst[call.to].kind = "file" /\ dst[call.to].data = src[call.from].data

\* C2, amended: a destination file whose content differs from the source's
\* and that is unreadable or has another digest than the source holds the
\* source's content after write_on_file_diff returns Ok.
C2_DigestMismatchCopies ==
    (/\ FileCallDone /\ result = Ok
     /\ pre[call.to].kind = "file"
     /\ pre[call.to].data # src[call.from].data
     /\ (~pre[call.to].r \/ Hash(pre[call.to].data) # Hash(src[call.from].data)))
        => dst[call.to].kind = "file" /\ dst[call.to].data = src[call.from].data

C2_Witness ==
    /\ FileCallDone /\ result = Ok
    /\ Readable(pre, call.to)
    /\ Hash(pre[call.to].data) # Hash(src[call.from].data)
    /\ dst[call.to].data = src[call.from].data
    /\ dst[call.to].mtime > pre[call.to].mtime

\* C3: when the source can be read and the destination cannot be probed
\* (it is missing, a directory or unreadable), write_on_file_diff returns
\* what the copy returns: Ok with the destination holding the source's
\* content when the destination can be opened for writing, the error of
\* opening it otherwise, the destination then left as it was.
C3_ProbeFailureNotFatal ==
    (FileCallDone /\ Readable(src, call.from) /\ ~HashFile(pre, call.to).ok) =>
        LET w == OpenWrite(pre, call.to)
        IN  IF w = "ok"
            THEN /\ result = Ok
                 /\ dst[call.to].kind = "file"
                 /\ dst[call.to].data = src[call.from].data
                 /\ dst[call.to].mtime > pre[call.to].mtime
            ELSE result = Err(w) /\ dst = pre

C3_Witness ==
    /\ FileCallDone /\ result = Ok
    /\ pre[call.to].kind = "none"
    /\ dst[call.to].kind = "file"
    /\ dst[call.to].data = src[call.from].data
    /\ src[call.from].data # << >>

\* The error kind of a source that cannot be read.
SourceErrorKind(p) ==
    CASE src[p].kind = "file" -> "PermissionDenied"
      [] src[p].kind = "dir" -> "IsADirectory"
      [] \E i \in 0..(Len(p) - 1) : src[SubSeq(p, 1, i)].kind = "file" -> "NotADirectory"
      [] OTHER -> "NotFound"

\* C7: when the source is missing, a directory or unreadable,
\* write_on_file_diff returns the error of that kind (NotFound when nothing
\* is at the path) and the destination side is left exactly as it was.
C7_SourceFailureFatal ==
    (FileCallDone /\ ~Readable(src, call.from)) =>
        /\ result = Err(SourceErrorKind(call.from))
        /\ dst = pre

C7_Witness ==
    /\ FileCallDone
    /\ src[call.from].kind = "none"
    /\ pre[call.to].kind = "file" /\ pre[call.to].data # << >>
    /\ result = Err("NotFound")
    /\ dst = pre

\* C9 as stated: for a readable source and any prior state of the
\* destination, the second of two successive write_on_file_diff calls
\* returns Ok and writes nothing.
C9_Original ==
    (calls >= 2 /\ FileCallDone /\ Readable(src, call.from)) => result = Ok /\ dst = pre

\* C9, amended: the second of two successive write_on_file_diff calls writes
\* nothing, leaves the destination (content, permission bits, modification
\* time) as the first left it and returns what the first returned: Ok when
\* the first returned Ok.
C9_Idempotent ==
    (calls >= 2 /\ FileCallDone) => dst = pre /\ result = prevResult

C9_Witness ==
    /\ calls >= 2 /\ FileCallDone
    /\ result = Ok /\ prevResult = Ok
    /\ dst = pre
    /\ dst[call.to].mtime > 0

\* What write_on_file_diff does to the destination side as it was before the
\* call, for a source file that holds the buffer of the call.
FileOutcome ==
    WriteOnFileDiff([EmptyTree EXCEPT ![call.to] = FileNode(call.bytes, TRUE, TRUE, 0)],
                    pre, call.to, call.to, clock)

\* The same content everywhere, and the same paths written.
SameOutcome(d1, d2) ==
    \A p \in Paths :
        /\ d1[p].kind = d2[p].kind
        /\ d1[p].data = d2[p].data
        /\ (d1[p] = pre[p]) <=> (d2[p] = pre[p])

BytesAsFile == result = FileOutcome.res /\ SameOutcome(dst, FileOutcome.dst)

BytesEqualNoWrite ==
    (Readable(pre, call.to) /\ pre[call.to].data = call.bytes) => result = Ok /\ dst = pre

\* C6 as stated: write_on_bytes_diff returns what write_on_file_diff returns
\* for a source file holding the buffer and leaves the same destination;
\* nothing is written when the destination's content equals the buffer, and
\* the destination holds the buffer after any other successful call.
C6_Original ==
    BytesCallDone =>
        /\ BytesAsFile
        /\ BytesEqualNoWrite
        /\ (result = Ok /\ ~(Readable(pre, call.to) /\ pre[call.to].data = call.bytes))
              => dst[call.to].kind = "file" /\ dst[call.to].data = call.bytes

\* C6, amended: as stated, except that the destination holds the buffer
\* after a successful call when it was unreadable, missing or of another
\* digest than the buffer; a readable destination of the same digest is left
\* as it was.
C6_BytesLikeFile ==
    BytesCallDone =>
        /\ BytesAsFile
        /\ BytesEqualNoWrite
        /\ (result = Ok /\ DigestsDiffer(Hash(call.bytes), HashFile(pre, call.to)))
              => dst[call.to].kind = "file" /\ dst[call.to].data = call.bytes
        /\ ~DigestsDiffer(Hash(call.bytes), HashFile(pre, call.to))
              => result = Ok /\ dst = pre

C6_Witness ==
    /\ BytesCallDone /\ result = Ok
    /\ Readable(pre, call.to)
    /\ Hash(pre[call.to].data) # Hash(call.bytes)
    /\ dst[call.to].data = call.bytes
    /\ dst[call.to].mtime > pre[call.to].mtime

\* C4: in every state of a write_on_dir_diff call and after it, whatever it
\* returns, every destination entry below destDir that has no source entry
\* at the mirrored path is the node it was before the call; and with an
\* empty source directory and a destination that exists nothing at all is
\* written.
C4_NonDestructive ==
    call.op = "dir" =>
        /\ \A p \in Paths :
              (IsPrefix(call.to, p) /\ pre[p].kind # "none" /\ src[p].kind = "none")
                  => dst[p] = pre[p]
        /\ (ReadDir(src, call.from).ok /\ ReadDir(src, call.from).names = {}
              /\ pre[call.to].kind # "none") => dst = pre

C4_Witness ==
    /\ DirCallDone /\ result = Ok
    /\ dst # pre
    /\ \E p \in Paths :
          /\ Below(call.to, p) /\ pre[p].kind = "file" /\ src[p].kind = "none"
          /\ dst[p] = pre[p]

\* Every directory from destDir down to the parent of p exists in d.
DirsDownTo(d, p) ==
    \A q \in Paths : (IsPrefix(call.to, q) /\ IsPrefix(q, p) /\ q # p) => d[q].kind = "dir"

\* C5 as stated: after write_on_dir_diff returns Ok every file below
\* sourceDir has a file at the mirrored path below destDir, under
\* directories that exist, with the source file's content.
C5_Original ==
    (DirCallDone /\ result = Ok) =>
        \A p \in Paths :
            (Below(call.from, p) /\ src[p].kind = "file") =>
                /\ dst[p].kind = "file" /\ DirsDownTo(dst, p)
                /\ dst[p].data = src[p].data

\* C5, amended: as stated, except that a destination file that was readable
\* before the call with the digest of the source file is left as it was,
\* whether or not its content is the source's.
C5_Complete ==
    (DirCallDone /\ result = Ok) =>
        \A p \in Paths :
            (Below(call.from, p) /\ src[p].kind = "file") =>
                /\ dst[p].kind = "file" /\ DirsDownTo(dst, p)
                /\ \/ dst[p].data = src[p].data
                   \/ /\ Readable(pre, p)
                      /\ Hash(pre[p].data) = Hash(src[p].data)
                      /\ dst[p] = pre[p]

C5_Witness ==
    /\ DirCallDone /\ result = Ok
    /\ pre[call.to].kind = "none"
    /\ \E p \in Paths :
          /\ Len(p) >= Len(call.from) + 2
          /\ IsPrefix(call.from, p)
          /\ src[p].kind = "file" /\ src[p].data # << >>
          /\ dst[p].kind = "file" /\ dst[p].data = src[p].data

\* An error is on its way up the frames of write_on_dir_diff.
Unwinding == stack # << >> /\ ret.status = "err"

\* C8: once a step of write_on_dir_diff has failed, every further step only
\* returns that same error from the next frame, up to the top-level caller:
\* no entry is visited, nothing is written and nothing already written is
\* undone; and the failing step itself writes nothing.
C8_FirstErrorAborts ==
    [][/\ Unwinding =>
            /\ dst' = dst /\ clock' = clock
            /\ stack' = SubSeq(stack, 1, Len(stack) - 1)
            /\ IF Len(stack) = 1 THEN result' = ret ELSE ret' = ret /\ result' = result
       /\ (ret'.status = "err" /\ ret.status # "err") => dst' = dst /\ Len(stack') < Len(stack)
       /\ (result'.status = "err" /\ result.status = "running") =>
            dst' = dst /\ stack' = << >>]_vars

C8_Witness ==
    /\ Unwinding
    /\ call.op = "dir"
    /\ dst # pre
    /\ \E i \in 1..Len(stack) : stack[i].todo # {}

\* No frame of write_on_dir_diff is past its first statement while its
\* destination directory is missing.
CreatedBeforeRead ==
    \A i \in 1..Len(stack) : stack[i].pc # "create" => dst[stack[i].to].kind # "none"

\* The call returned the error of enumerating sourceDir and left destDir
\* behind, a directory without entries.
EnumerationErrorAfterCreate ==
    /\ result = Err(ReadDir(src, call.from).kind)
    /\ dst[call.to] = DirNode(TRUE)
    /\ \A p \in Paths : Below(call.to, p) => dst[p].kind = "none"

\* C10 as stated: the destination directory of every frame is created
\* before the source is enumerated, and a call whose destDir is missing and
\* whose sourceDir cannot be enumerated returns the enumeration error and
\* leaves destDir behind, created and empty.
C10_Original ==
    /\ CreatedBeforeRead
    /\ (DirCallDone /\ pre[call.to].kind = "none" /\ ~ReadDir(src, call.from).ok)
          => EnumerationErrorAfterCreate

\* C10, amended: as stated, for a missing destDir that can be created (no
\* ancestor of it is a regular file); when it cannot, the call returns the
\* error of creating it and nothing is created.
C10_CreateBeforeEnumerate ==
    /\ CreatedBeforeRead
    /\ (DirCallDone /\ pre[call.to].kind = "none" /\ ~ReadDir(src, call.from).ok) =>
          IF MissingKind(pre, call.to) = "NotFound"
          THEN EnumerationErrorAfterCreate
          ELSE result = Err("NotADirectory") /\ dst = pre

C10_Witness ==
    /\ DirCallDone
    /\ pre[call.to].kind = "none"
    /\ src[call.from].kind = "none"
    /\ result = Err("NotFound")
    /\ dst[call.to].kind = "dir"

====
